---- MODULE Spec2Model ----
(***************************************************************************)
(* Model of taffy's fluent builder layer:                                  *)
(*   src/src/style/builder.rs  StyleBuilder, RefHandle                     *)
(*   src/src/tree/builder.rs   StyleNode, NodeIdHandle, StyleNodeError     *)
(* The node arena (TaffyTree: new_leaf, new_with_children, set_children,   *)
(* compute_layout) and Style::default are not part of these two files;     *)
(* they are modelled from the written specification (sections 3, 4.1, 4.4, *)
(* 4.6, 7).                                                                *)
(***************************************************************************)
EXTENDS Integers, Sequences, FiniteSets, TLC

\* ---- bounds ------------------------------------------------------------
\* Spec: tree materialization, handles, failures
MaxBuilders == 3
MaxChildCalls == 3
MaxHandleCalls == 2
MaxBuilds == 1
NumHandles == 2
\* SpecStyle: setters, build_style and what a built node keeps of its builder
StyleMaxBuilders == 2
StyleMaxSetterCalls == 2
StyleMaxChildCalls == 1
StyleMaxBuilds == 2
\* SpecLayout: styled builder trees whose layout is computed
LayoutMaxBuilders == 3
LayoutMaxSetterCalls == 2
LayoutMaxChildCalls == 2
LayoutMaxBuilds == 1

VARIABLES
    api,            \* which front end the program uses: "StyleBuilder" | "StyleNode"
    style_builders, \* arena of StyleBuilder values (a reference is an index)
    style_nodes,    \* arena of StyleNode values (a Box is an index)
    handles,        \* the Rc<RefCell<Option<NodeId>>> cells
    tree,           \* the TaffyTree handed to build
    stack,          \* activation records of the build call in progress
    result,         \* what the last build call returned
    calls,          \* the fallible steps the current build call has made
    firstId,        \* tree.next id when the current build call started
    used,           \* number of calls made so far, per kind
    last_arg,       \* per builder and field, the argument of the most recent setter call
    given,          \* the builders as they were when the current build call was made
    child_args,     \* per builder, the children its child() calls added, in call order
    limit           \* how many calls of each kind the driver makes; whether the core may fail

vars == <<api, style_builders, style_nodes, handles, tree, stack, result, calls, firstId, used, last_arg, child_args, given, limit>>

\* ---- Option / Result -----------------------------------------------------
None == [some |-> FALSE]
Some(v) == [some |-> TRUE, val |-> v]
unwrap_or(o, d) == IF o.some THEN o.val ELSE d

Ok(v) == [tag |-> "Ok", val |-> v]
Err(e) == [tag |-> "Err", err |-> e]
NoResult == [tag |-> "None"]
Running == [tag |-> "Running"]

\* ---- style values ----------------------------------------------------------
Auto == [tag |-> "auto"]
Length(n) == [tag |-> "length", v |-> n]
Size(w, h) == [width |-> w, height |-> h]

\* The builder_fields! macro treats its 34 fields alike; the model carries the
\* fields the tests use plus the doubly optional aspect_ratio.
Fields == {"size", "flex_direction", "flex_grow", "aspect_ratio"}

Style_default ==
    [size |-> Size(Auto, Auto), flex_direction |-> "Row", flex_grow |-> 0, aspect_ratio |-> None]

\* arguments the setters are called with
SetterArgs(f) ==
    CASE f = "size" -> {Size(Length(8), Length(6)), Size(Length(8), Length(1)), Size(Length(8), Auto)}
      [] f = "flex_direction" -> {"Row", "Column"}
      [] f = "flex_grow" -> {1, 2}
      [] f = "aspect_ratio" -> {None, Some(2)}

\* ---- StyleBuilder (style/builder.rs) ------------------------------------------
StyleBuilder_default ==
    [children |-> <<>>, ref_handle |-> None,
     size |-> None, flex_direction |-> None, flex_grow |-> None, aspect_ratio |-> None]

\* a setter that keeps the value of an earlier call
setter_keep_first(self, f, v) == IF self[f].some THEN self ELSE [self EXCEPT ![f] = Some(v)]

\* pub fn $field(&mut self, $field: impl Into<$type>) -> &mut Self
setter(self, f, v) == [self EXCEPT ![f] = Some(v)]

\* build_style taking flex_shrink's default (1) where flex_grow was not set
build_style_wrong_default(self) ==
    [f \in Fields |-> unwrap_or(self[f], IF f = "flex_grow" THEN 1 ELSE Style_default[f])]

\* build_style leaving flex_grow out of the fields it copies
build_style_no_grow(self) ==
    [f \in Fields |-> IF f = "flex_grow" THEN Style_default[f] ELSE unwrap_or(self[f], Style_default[f])]

\* build_style leaving size out of the fields it copies
build_style_no_size(self) ==
    [f \in Fields |-> IF f = "size" THEN Style_default[f] ELSE unwrap_or(self[f], Style_default[f])]

\* fn build_style(&self) -> Style
build_style(self) == [f \in Fields |-> unwrap_or(self[f], Style_default[f])]

StyleBuilder_new == StyleBuilder_default
StyleBuilder_row == setter(StyleBuilder_new, "flex_direction", "Row")
StyleBuilder_column == setter(StyleBuilder_new, "flex_direction", "Column")

\* self.children.push(style_builder)
push_child(children, c) == Append(children, c)

\* a set that writes through every handle, as if all shared one cell
handle_set_shared(cells, h, node_id) == [c \in DOMAIN cells |-> Some(node_id)]

\* RefHandle::set / NodeIdHandle::set on the cell the handle points to
handle_set(cells, h, node_id) == [cells EXCEPT ![h] = Some(node_id)]

\* RefHandle::get / NodeIdHandle::get
handle_get(cells, h) == cells[h]

\* ---- StyleNode (tree/builder.rs) -----------------------------------------------
StyleNode_new == [style_builder |-> StyleBuilder_default, children |-> <<>>, node_id_handle |-> None]

\* impl From<TaffyError> / From<StyleBuilderError> for StyleNodeError
From_TaffyError(value) == [variant |-> "TaffyComputeError", inner |-> value]
From_StyleBuilderError(value) == [variant |-> "BuilderFailed", inner |-> value]

\* ---- TaffyTree, from the written specification -----------------------------------
EmptyTree == [style |-> <<>>, children |-> <<>>]
Nodes(t) == 1..Len(t.style)

Range(s) == {s[i] : i \in 1..Len(s)}

parent_of(t, n) ==
    IF \E p \in Nodes(t) : n \in Range(t.children[p])
    THEN Some(CHOOSE p \in Nodes(t) : n \in Range(t.children[p]))
    ELSE None

RECURSIVE AncestorsUpTo(_, _, _)
AncestorsUpTo(t, n, k) ==
    IF k = 0 \/ ~parent_of(t, n).some THEN {}
    ELSE {parent_of(t, n).val} \cup AncestorsUpTo(t, parent_of(t, n).val, k - 1)

Ancestors(t, n) == AncestorsUpTo(t, n, Len(t.style))

\* create(style) -> handle
new_leaf(t, style) ==
    [tree |-> [style |-> Append(t.style, style), children |-> Append(t.children, <<>>)],
     id |-> Len(t.style) + 1]

\* the error set_children(p, kids) fails with, if any
set_children_error(t, p, kids) ==
    IF p \notin Nodes(t) \/ \E i \in 1..Len(kids) : kids[i] \notin Nodes(t)
        THEN Some("InvalidNodeHandle")
    ELSE IF \E i \in 1..Len(kids) : parent_of(t, kids[i]).some /\ parent_of(t, kids[i]).val # p
        THEN Some("ChildAlreadyParented")
    ELSE IF \E i \in 1..Len(kids) : kids[i] = p \/ kids[i] \in Ancestors(t, p)
        THEN Some("CycleDetected")
    ELSE None

set_children(t, p, kids) == [t EXCEPT !.children[p] = kids]

\* failures of the core other than the ones set_children_error computes
OtherTaffyErrors == {"TaffyErrorA", "TaffyErrorB"}

\* ---- state ---------------------------------------------------------------------
\* a tree the caller made by hand before any build:
\* new_leaf(8 x 1), then new_with_children(column 8 x 6, [that leaf])
PreTree ==
    LET leaf == new_leaf(EmptyTree, [Style_default EXCEPT !.size = Size(Length(8), Length(1))])
        root == new_leaf(leaf.tree, [Style_default EXCEPT !.size = Size(Length(8), Length(6)),
                                                          !.flex_direction = "Column"])
    IN set_children(root.tree, root.id, <<leaf.id>>)

InitCommon ==
    /\ api \in {"StyleBuilder", "StyleNode"}
    /\ style_builders = <<>>
    /\ style_nodes = <<>>
    /\ handles = [h \in 1..NumHandles |-> None]
    /\ stack = <<>>
    /\ result = NoResult
    /\ calls = <<>>
    /\ used = [setter |-> 0, child |-> 0, handle |-> 0, build |-> 0]
    /\ last_arg = <<>>
    /\ child_args = <<>>
    /\ given = [children |-> <<>>, args |-> <<>>]

Init ==
    /\ InitCommon
    /\ tree \in {EmptyTree, PreTree}
    /\ firstId = Len(tree.style) + 1
    /\ limit = [builders |-> MaxBuilders, setter |-> 0, child |-> MaxChildCalls,
                handle |-> MaxHandleCalls, build |-> MaxBuilds, faults |-> TRUE]

InitStyle ==
    /\ InitCommon
    /\ tree = EmptyTree
    /\ firstId = 1
    /\ limit = [builders |-> StyleMaxBuilders, setter |-> StyleMaxSetterCalls, child |-> StyleMaxChildCalls,
                handle |-> 0, build |-> StyleMaxBuilds, faults |-> FALSE]

InitLayout ==
    /\ InitCommon
    /\ tree = EmptyTree
    /\ firstId = 1
    /\ limit = [builders |-> LayoutMaxBuilders, setter |-> LayoutMaxSetterCalls, child |-> LayoutMaxChildCalls,
                handle |-> 0, build |-> LayoutMaxBuilds, faults |-> FALSE]

Idle == stack = <<>>

NoArgs == [f \in Fields |-> None]

\* what a call into the core, or into style_builder.build(), may answer
CoreOutcomes == IF limit.faults THEN {None} \cup {Some(e) : e \in OtherTaffyErrors} ELSE {None}
StyleBuildOutcomes == IF limit.faults THEN {None, Some("StyleBuilderError")} ELSE {None}

\* the builder graph, whichever front end is in use
Builders == IF api = "StyleBuilder" THEN DOMAIN style_builders ELSE DOMAIN style_nodes
children_of_builder(b) == IF api = "StyleBuilder" THEN style_builders[b].children ELSE style_nodes[b].children
handle_of_builder(b) == IF api = "StyleBuilder" THEN style_builders[b].ref_handle ELSE style_nodes[b].node_id_handle

RECURSIVE Reaches(_, _, _)
\* builder c is b or is reachable from b through at most k child references
Reaches(b, c, k) ==
    \/ b = c
    \/ /\ k > 0
       /\ \E i \in 1..Len(children_of_builder(b)) : Reaches(children_of_builder(b)[i], c, k - 1)

\* ---- constructing and configuring StyleBuilder values ---------------------------
StyleBuilder_new_call ==
    /\ api = "StyleBuilder" /\ Idle
    /\ Len(style_builders) < limit.builders
    /\ style_builders' = Append(style_builders, StyleBuilder_new)
    /\ UNCHANGED <<api, style_nodes, handles, tree, stack, result, calls, firstId, used, given, limit>>
    /\ child_args' = Append(child_args, <<>>)
    /\ last_arg' = Append(last_arg, NoArgs)

StyleBuilder_row_call ==
    /\ api = "StyleBuilder" /\ Idle
    /\ Len(style_builders) < limit.builders
    /\ style_builders' = Append(style_builders, StyleBuilder_row)
    /\ UNCHANGED <<api, style_nodes, handles, tree, stack, result, calls, firstId, used, given, limit>>
    /\ child_args' = Append(child_args, <<>>)
    /\ last_arg' = Append(last_arg, [NoArgs EXCEPT !["flex_direction"] = Some("Row")])

StyleBuilder_column_call ==
    /\ api = "StyleBuilder" /\ Idle
    /\ Len(style_builders) < limit.builders
    /\ style_builders' = Append(style_builders, StyleBuilder_column)
    /\ UNCHANGED <<api, style_nodes, handles, tree, stack, result, calls, firstId, used, given, limit>>
    /\ child_args' = Append(child_args, <<>>)
    /\ last_arg' = Append(last_arg, [NoArgs EXCEPT !["flex_direction"] = Some("Column")])

StyleBuilder_setter_call ==
    /\ api = "StyleBuilder" /\ Idle
    /\ used.setter < limit.setter
    /\ \E b \in DOMAIN style_builders, f \in Fields : \E v \in SetterArgs(f) :
          /\ style_builders' = [style_builders EXCEPT ![b] = setter(@, f, v)]
          /\ last_arg' = [last_arg EXCEPT ![b][f] = Some(v)]
    /\ used' = [used EXCEPT !.setter = @ + 1]
    /\ UNCHANGED <<api, style_nodes, handles, tree, stack, result, calls, firstId, child_args, given, limit>>

\* child(&'a mut self, style_builder: &'a StyleBuilder): the borrow rules keep
\* the reference graph acyclic (self is not reachable from style_builder)
StyleBuilder_child ==
    /\ api = "StyleBuilder" /\ Idle
    /\ used.child < limit.child
    /\ \E b \in DOMAIN style_builders, c \in DOMAIN style_builders :
          /\ ~Reaches(c, b, Len(style_builders))
          /\ style_builders' = [style_builders EXCEPT ![b].children = push_child(@, c)]
          /\ child_args' = [child_args EXCEPT ![b] = Append(@, c)]
    /\ used' = [used EXCEPT !.child = @ + 1]
    /\ UNCHANGED <<api, style_nodes, handles, tree, stack, result, calls, firstId, last_arg, given, limit>>

StyleBuilder_handle ==
    /\ api = "StyleBuilder" /\ Idle
    /\ used.handle < limit.handle
    /\ \E b \in DOMAIN style_builders, ref_handle \in 1..NumHandles :
          style_builders' = [style_builders EXCEPT ![b].ref_handle = Some(ref_handle)]
    /\ used' = [used EXCEPT !.handle = @ + 1]
    /\ UNCHANGED <<api, style_nodes, handles, tree, stack, result, calls, firstId, last_arg, child_args, given, limit>>

\* ---- constructing and configuring StyleNode values --------------------------------
StyleNode_new_call ==
    /\ api = "StyleNode" /\ Idle
    /\ Len(style_nodes) < limit.builders
    /\ style_nodes' = Append(style_nodes, StyleNode_new)
    /\ UNCHANGED <<api, style_builders, handles, tree, stack, result, calls, firstId, used, given, limit>>
    /\ child_args' = Append(child_args, <<>>)
    /\ last_arg' = Append(last_arg, NoArgs)

\* style(f): the closure f calls setters on self.style_builder
StyleNode_style ==
    /\ api = "StyleNode" /\ Idle
    /\ used.setter < limit.setter
    /\ \E b \in DOMAIN style_nodes, f \in Fields : \E v \in SetterArgs(f) :
          /\ style_nodes' = [style_nodes EXCEPT ![b].style_builder = setter(@, f, v)]
          /\ last_arg' = [last_arg EXCEPT ![b][f] = Some(v)]
    /\ used' = [used EXCEPT !.setter = @ + 1]
    /\ UNCHANGED <<api, style_builders, handles, tree, stack, result, calls, firstId, child_args, given, limit>>

\* child(f): a new StyleNode is boxed and pushed; what the closure f does to it
\* is the later StyleNode_style / StyleNode_child / StyleNode_handle steps on it
StyleNode_child ==
    /\ api = "StyleNode" /\ Idle
    /\ used.child < limit.child
    /\ Len(style_nodes) < limit.builders
    /\ \E b \in DOMAIN style_nodes :
          LET child_node == Len(style_nodes) + 1
          IN /\ style_nodes' = [Append(style_nodes, StyleNode_new) EXCEPT ![b].children = push_child(@, child_node)]
             /\ child_args' = [Append(child_args, <<>>) EXCEPT ![b] = Append(@, child_node)]
    /\ used' = [used EXCEPT !.child = @ + 1]
    /\ UNCHANGED <<api, style_builders, handles, tree, stack, result, calls, firstId, given, limit>>
    /\ last_arg' = Append(last_arg, NoArgs)

StyleNode_handle ==
    /\ api = "StyleNode" /\ Idle
    /\ used.handle < limit.handle
    /\ \E b \in DOMAIN style_nodes, node_id_handle \in {None} \cup {Some(h) : h \in 1..NumHandles} :
          style_nodes' = [style_nodes EXCEPT ![b].node_id_handle = node_id_handle]
    /\ used' = [used EXCEPT !.handle = @ + 1]
    /\ UNCHANGED <<api, style_builders, handles, tree, stack, result, calls, firstId, last_arg, child_args, given, limit>>

\* ---- build ---------------------------------------------------------------------
\* An activation record of build holds self, node_id and the child ids collected
\* so far; the child being built is the one after the collected ones.
Frame(b, node_id) == [b |-> b, node_id |-> node_id, children_node_ids |-> <<>>]

\* child positions leading from the build root to the node entered under stk
PathOf(stk) == [i \in 1..Len(stk) |-> Len(stk[i].children_node_ids) + 1]

Call(op, path, b, node, kids, err) ==
    [op |-> op, path |-> path, b |-> b, node |-> node, kids |-> kids, err |-> err]

\* a collect that puts each new id in front
collect_push_front(ids, id) == <<id>> \o ids

\* collect::<Result<Vec<_>, _>>() keeps the ids in iteration order
collect_push(ids, id) == Append(ids, id)

\* a failed step answered with a fixed error in place of the step's own
Propagate_default(log, call, e) ==
    /\ stack' = <<>>
    /\ calls' = Append(log, call)
    /\ result' = Err(IF api = "StyleBuilder" THEN "TaffyErrorA" ELSE From_TaffyError("TaffyErrorA"))
    /\ UNCHANGED <<tree, handles>>

\* a failed step that removes the nodes the build call had created
Propagate_rollback(log, call, e) ==
    /\ stack' = <<>>
    /\ calls' = Append(log, call)
    /\ result' = Err(e)
    /\ tree' = IF stack = <<>> THEN tree
               ELSE [style |-> SubSeq(tree.style, 1, firstId - 1),
                     children |-> SubSeq(tree.children, 1, firstId - 1)]
    /\ UNCHANGED handles

\* the `?` on a failed step: every enclosing build returns the same Err
Propagate(log, call, e) ==
    /\ stack' = <<>>
    /\ calls' = Append(log, call)
    /\ result' = Err(e)
    /\ UNCHANGED <<tree, handles>>

\* set_children called on the node before the one just created
set_children_args_prev(frame) == [node_id |-> frame.node_id - 1, children |-> frame.children_node_ids]

\* set_children called with the node itself among its children
set_children_args_self(frame) ==
    [node_id |-> frame.node_id, children |-> <<frame.node_id>> \o frame.children_node_ids]

\* the ids handed to tree.set_children(node_id, &children_node_ids)
set_children_args(frame) == [node_id |-> frame.node_id, children |-> frame.children_node_ids]

\* return Ok(node_id) to the caller: the enclosing build collects it, or the
\* build call is over
Return(stk, node_id) ==
    LET rest == SubSeq(stk, 1, Len(stk) - 1)
    IN IF rest = <<>>
       THEN stack' = <<>> /\ result' = Ok(node_id)
       ELSE /\ stack' = [rest EXCEPT ![Len(rest)].children_node_ids = collect_push(@, node_id)]
            /\ result' = Running

\* StyleBuilder::build, lines 156-161: build_style, new_leaf, ref_handle.set
StyleBuilder_build_enter(b, stk, log) ==
    \E out \in CoreOutcomes :
        LET self == style_builders[b]
            style == build_style(self)
            nl == new_leaf(tree, style)
        IN IF ~out.some
           THEN /\ tree' = nl.tree
                /\ handles' = IF self.ref_handle.some
                              THEN handle_set(handles, self.ref_handle.val, nl.id)
                              ELSE handles
                /\ stack' = Append(stk, Frame(b, nl.id))
                /\ calls' = Append(log, Call("new_leaf", PathOf(stk), b, nl.id, <<>>, None))
                /\ result' = Running
           ELSE Propagate(log, Call("new_leaf", PathOf(stk), b, 0, <<>>, out), out.val)

\* StyleBuilder::build, line 165-167: set_children, Ok(node_id)
StyleBuilder_build_finish(stk, log) ==
    \E out \in CoreOutcomes :
        LET top == stk[Len(stk)]
            args == set_children_args(top)
            refused == set_children_error(tree, args.node_id, args.children)
            err == IF refused.some THEN refused ELSE out
            call == Call("set_children", PathOf(SubSeq(stk, 1, Len(stk) - 1)), top.b,
                         args.node_id, args.children, err)
        IN IF ~err.some
           THEN /\ tree' = set_children(tree, args.node_id, args.children)
                /\ calls' = Append(log, call)
                /\ Return(stk, top.node_id)
                /\ UNCHANGED handles
           ELSE Propagate(log, call, err.val)

StyleBuilder_build ==
    /\ api = "StyleBuilder" /\ Idle
    /\ used.build < limit.build
    /\ \E b \in DOMAIN style_builders : StyleBuilder_build_enter(b, <<>>, <<>>)
    /\ firstId' = Len(tree.style) + 1
    /\ used' = [used EXCEPT !.build = @ + 1]
    /\ UNCHANGED <<api, style_builders, style_nodes, last_arg, child_args, limit>>
    /\ given' = [children |-> child_args, args |-> last_arg]

\* self.children.iter().map(|child| child.build(tree)): the next child
StyleBuilder_build_child ==
    /\ api = "StyleBuilder" /\ ~Idle
    /\ LET top == stack[Len(stack)]
           children == style_builders[top.b].children
       IN /\ Len(top.children_node_ids) < Len(children)
          /\ StyleBuilder_build_enter(children[Len(top.children_node_ids) + 1], stack, calls)
    /\ UNCHANGED <<api, style_builders, style_nodes, firstId, used, last_arg, child_args, given, limit>>

StyleBuilder_build_set_children ==
    /\ api = "StyleBuilder" /\ ~Idle
    /\ LET top == stack[Len(stack)]
       IN Len(top.children_node_ids) = Len(style_builders[top.b].children)
    /\ StyleBuilder_build_finish(stack, calls)
    /\ UNCHANGED <<api, style_builders, style_nodes, firstId, used, last_arg, child_args, given, limit>>

\* self.style_builder.build(): Result<Style, StyleBuilderError>
StyleBuilder_build_result(self, out) == IF out.some THEN Err(out.val) ELSE Ok(build_style(self))

\* StyleNode::build, lines 85-90
StyleNode_build_enter(b, stk, log) ==
    \E sb_out \in StyleBuildOutcomes, out \in CoreOutcomes :
        LET self == style_nodes[b]
            built == StyleBuilder_build_result(self.style_builder, sb_out)
            styled == Append(log, Call("style_build", PathOf(stk), b, 0, <<>>, None))
        IN IF built.tag = "Err"
           THEN /\ out = None
                /\ Propagate(log, Call("style_build", PathOf(stk), b, 0, <<>>, Some(built.err)),
                             From_StyleBuilderError(built.err))
           ELSE LET nl == new_leaf(tree, built.val)
                IN IF ~out.some
                   THEN /\ tree' = nl.tree
                        /\ handles' = IF self.node_id_handle.some
                                      THEN handle_set(handles, self.node_id_handle.val, nl.id)
                                      ELSE handles
                        /\ stack' = Append(stk, Frame(b, nl.id))
                        /\ calls' = Append(styled, Call("new_leaf", PathOf(stk), b, nl.id, <<>>, None))
                        /\ result' = Running
                   ELSE Propagate(styled, Call("new_leaf", PathOf(stk), b, 0, <<>>, out),
                                  From_TaffyError(out.val))

\* StyleNode::build, lines 94-100
StyleNode_build_finish(stk, log) ==
    \E out \in CoreOutcomes :
        LET top == stk[Len(stk)]
            args == set_children_args(top)
            refused == set_children_error(tree, args.node_id, args.children)
            err == IF refused.some THEN refused ELSE out
            call == Call("set_children", PathOf(SubSeq(stk, 1, Len(stk) - 1)), top.b,
                         args.node_id, args.children, err)
        IN IF ~err.some
           THEN /\ tree' = set_children(tree, args.node_id, args.children)
                /\ calls' = Append(log, call)
                /\ Return(stk, top.node_id)
                /\ UNCHANGED handles
           ELSE Propagate(log, call, From_TaffyError(err.val))

StyleNode_build ==
    /\ api = "StyleNode" /\ Idle
    /\ used.build < limit.build
    /\ \E b \in DOMAIN style_nodes : StyleNode_build_enter(b, <<>>, <<>>)
    /\ firstId' = Len(tree.style) + 1
    /\ used' = [used EXCEPT !.build = @ + 1]
    /\ UNCHANGED <<api, style_builders, style_nodes, last_arg, child_args, limit>>
    /\ given' = [children |-> child_args, args |-> last_arg]

StyleNode_build_child ==
    /\ api = "StyleNode" /\ ~Idle
    /\ LET top == stack[Len(stack)]
           children == style_nodes[top.b].children
       IN /\ Len(top.children_node_ids) < Len(children)
          /\ StyleNode_build_enter(children[Len(top.children_node_ids) + 1], stack, calls)
    /\ UNCHANGED <<api, style_builders, style_nodes, firstId, used, last_arg, child_args, given, limit>>

StyleNode_build_set_children ==
    /\ api = "StyleNode" /\ ~Idle
    /\ LET top == stack[Len(stack)]
       IN Len(top.children_node_ids) = Len(style_nodes[top.b].children)
    /\ StyleNode_build_finish(stack, calls)
    /\ UNCHANGED <<api, style_builders, style_nodes, firstId, used, last_arg, child_args, given, limit>>

\* the build call, step by step
Build ==
    \/ StyleBuilder_build
    \/ StyleBuilder_build_child
    \/ StyleBuilder_build_set_children
    \/ StyleNode_build
    \/ StyleNode_build_child
    \/ StyleNode_build_set_children

\* a driver that shapes builder trees, attaches handles and builds, the core
\* being allowed to fail
Next ==
    \/ StyleBuilder_new_call
    \/ StyleBuilder_child
    \/ StyleBuilder_handle
    \/ StyleNode_new_call
    \/ StyleNode_child
    \/ StyleNode_handle
    \/ Build

Spec == Init /\ [][Next]_vars

\* a driver that sets style fields and builds
NextStyle ==
    \/ StyleBuilder_new_call
    \/ StyleBuilder_row_call
    \/ StyleBuilder_column_call
    \/ StyleBuilder_setter_call
    \/ StyleBuilder_child
    \/ StyleNode_new_call
    \/ StyleNode_style
    \/ StyleNode_child
    \/ Build

SpecStyle == InitStyle /\ [][NextStyle]_vars

\* a driver that builds styled trees for layout
NextLayout ==
    \/ StyleBuilder_new_call
    \/ StyleBuilder_setter_call
    \/ StyleBuilder_child
    \/ StyleNode_new_call
    \/ StyleNode_style
    \/ StyleNode_child
    \/ Build

SpecLayout == InitLayout /\ [][NextLayout]_vars

\* ---- claims about the built style ------------------------------------------------
\* the StyleBuilder a builder node configures
builder_of(b) == IF api = "StyleBuilder" THEN style_builders[b] ELSE style_nodes[b].style_builder

\* the style the setter calls made so far on builder b call for
CalledFor(b) ==
    [f \in Fields |-> IF last_arg[b][f].some THEN last_arg[b][f].val ELSE Style_default[f]]

\* C3: build_style gives every field the argument of the most recent call of
\* its setter, and the default of Style when its setter was never called; a
\* setter call for one field leaves the built value of the others alone.
C3_LastSetterWins ==
    \A b \in Builders : \A f \in Fields :
        build_style(builder_of(b))[f] =
            IF last_arg[b][f].some THEN last_arg[b][f].val ELSE Style_default[f]

\* a field set twice with different arguments, next to a field never set
C3_Witness ==
    \E b \in Builders :
        /\ used.setter = 2
        /\ last_arg[b] = [NoArgs EXCEPT !["size"] = Some(Size(Length(8), Auto))]
        /\ \A c \in Builders : c # b => last_arg[c] = NoArgs
        /\ build_style(builder_of(b)).size = Size(Length(8), Auto)

\* C4: a builder on which no setter was called builds Style::default().
C4_DefaultsMatch ==
    \A b \in Builders : last_arg[b] = NoArgs => build_style(builder_of(b)) = Style_default

\* a builder no setter was called on, next to one with setter calls
C4_Witness ==
    \E b \in Builders, c \in Builders :
        last_arg[b] = NoArgs /\ last_arg[c] # NoArgs /\ build_style(builder_of(b)) = Style_default

\* C7: a node keeps the style its builder called for when build created it:
\* no later step changes the style of a node, build steps leave the builders
\* as they are, and a node created by a step gets the style the setter calls
\* made so far on its builder call for.
C7_StyleIsSnapshot ==
    [][/\ \A n \in Nodes(tree) : n \in Nodes(tree') /\ tree'.style[n] = tree.style[n]
       /\ (~Idle \/ stack' # <<>>) => (style_builders' = style_builders /\ style_nodes' = style_nodes)
       /\ \A n \in Nodes(tree') \ Nodes(tree) :
             /\ stack' # <<>>
             /\ stack'[Len(stack')].node_id = n
             /\ tree'.style[n] = CalledFor(stack'[Len(stack')].b)]_vars

\* a node built before a setter call on its builder, and a node built from the
\* same builder after it
C7_Witness ==
    /\ used.build = 2 /\ result.tag = "Ok"
    /\ \E n \in Nodes(tree) : \E i \in 1..Len(calls) :
          /\ n < firstId
          /\ calls[i].op = "new_leaf" /\ calls[i].node >= firstId
          /\ tree.style[n] # tree.style[calls[i].node]
          /\ tree.style[calls[i].node] = CalledFor(calls[i].b)

\* ---- claims about materialization ---------------------------------------------
Front(s) == SubSeq(s, 1, Len(s) - 1)
Last(s) == s[Len(s)]

\* the step is one of a build call: its first, or one made while it runs
BuildStep == used'.build # used.build \/ stack # <<>>

\* the new_leaf calls of the current build that succeeded, and their nodes
Created == {i \in 1..Len(calls) : calls[i].op = "new_leaf" /\ ~calls[i].err.some}
CreatedNodes == {calls[i].node : i \in Created}
NodeAt(path) == calls[CHOOSE i \in Created : calls[i].path = path].node

RECURSIVE Occurrences(_, _)
\* the builder-node occurrences at and below builder b placed at path, as the
\* child() calls made them
Occurrences(b, path) ==
    {<<path, b>>} \cup
    UNION {Occurrences(child_args[b][i], Append(path, i)) : i \in 1..Len(child_args[b])}

\* what C2 says of the state a successful build leaves
C2_Post ==
    LET occ == Occurrences(calls[1].b, <<>>)
    IN /\ result.val = NodeAt(<<>>)
       /\ Len(tree.style) - (firstId - 1) = Cardinality(occ)
       /\ \A o \in occ : \E i \in Created : calls[i].path = o[1] /\ calls[i].b = o[2]
       /\ \A o1 \in occ, o2 \in occ : o1 # o2 => NodeAt(o1[1]) # NodeAt(o2[1])
       /\ \A o \in occ :
             /\ Len(tree.children[NodeAt(o[1])]) = Len(child_args[o[2]])
             /\ \A i \in 1..Len(child_args[o[2]]) :
                   tree.children[NodeAt(o[1])][i] = NodeAt(Append(o[1], i))
             /\ o[1] # <<>> => parent_of(tree, NodeAt(o[1])) = Some(NodeAt(Front(o[1])))
       /\ parent_of(tree, result.val) = None

\* C2: a successful build returns the node of the builder root, creates one
\* node per builder-node occurrence, gives each node the nodes of its
\* builder's children in child() call order, and leaves the root unparented.
C2_Materialized == [][(BuildStep /\ result'.tag = "Ok") => C2_Post']_vars

\* a built tree of depth two whose root has two children
C2_Witness ==
    /\ result.tag = "Ok"
    /\ Len(tree.children[result.val]) = 2
    /\ \E k \in Range(tree.children[result.val]) : Len(tree.children[k]) = 1

RECURSIVE Expected(_, _), ExpectedChildren(_, _, _)
\* the fallible steps of build on builder b placed at path, in program order
Expected(b, path) ==
    (IF api = "StyleNode" THEN <<[op |-> "style_build", path |-> path, b |-> b]>> ELSE <<>>)
    \o <<[op |-> "new_leaf", path |-> path, b |-> b]>>
    \o ExpectedChildren(b, path, 1)
    \o <<[op |-> "set_children", path |-> path, b |-> b]>>
ExpectedChildren(b, path, i) ==
    IF i > Len(child_args[b]) THEN <<>>
    ELSE Expected(child_args[b][i], Append(path, i)) \o ExpectedChildren(b, path, i + 1)

\* the error build reports for a failed step
Reported(c) ==
    IF api = "StyleBuilder" THEN c.err.val
    ELSE IF c.op = "style_build" THEN [variant |-> "BuilderFailed", inner |-> c.err.val]
    ELSE [variant |-> "TaffyComputeError", inner |-> c.err.val]

\* what C6 says of the state after a step of build
C6_Post ==
    LET exp == Expected(calls[1].b, <<>>)
        n == Len(calls)
        failed == {i \in 1..n : calls[i].err.some}
    IN /\ n <= Len(exp)
       /\ \A i \in 1..n :
             calls[i].op = exp[i].op /\ calls[i].path = exp[i].path /\ calls[i].b = exp[i].b
       /\ failed \subseteq {n}
       /\ Len(tree.style) - (firstId - 1) = Cardinality(Created)
       /\ (result.tag = "Err") <=> (failed # {})
       /\ result.tag = "Err" => result.err = Reported(calls[n])
       /\ result.tag = "Ok" => n = Len(exp)
       /\ result.tag = "Running" => n < Len(exp) /\ ~Idle
       /\ result.tag # "Running" => Idle

\* C6: build fails exactly when a step fails, reports that step's error, and
\* stops at it: the steps made are the steps of a depth-first, left-to-right
\* walk up to the first failed one.
C6_FirstFailure == [][BuildStep => C6_Post']_vars

\* a build that failed below the root after a sibling subtree was completed
C6_Witness ==
    /\ result.tag = "Err"
    /\ Len(calls) > 0
    /\ Len(calls[Len(calls)].path) > 0
    /\ calls[Len(calls)].path[1] = 2
    /\ Len(calls) < Len(Expected(calls[1].b, <<>>)) - 1

\* ---- claims about handles ------------------------------------------------------
\* the node a step of build has just created, if it created one
JustCreated == calls # <<>> /\ Last(calls).op = "new_leaf" /\ ~Last(calls).err.some

\* the created occurrences of the current build that carry handle h
Carrying(h) == {i \in Created : handle_of_builder(calls[i].b) = Some(h)}

Max(S) == CHOOSE x \in S : \A y \in S : y <= x

\* C5 as first stated, part one: a handle attached to a builder node no node
\* was created for returns None
C5_NoneBefore ==
    \A b \in Builders :
        (used.build <= 1 /\ handle_of_builder(b).some /\ b \notin {calls[i].b : i \in Created})
            => handle_get(handles, handle_of_builder(b).val) = None

\* C5 as first stated, part two: after a successful build the handle of a
\* builder node of the built tree returns a node created for that builder node
C5_OwnNodeAfter ==
    \A i \in Created :
        handle_of_builder(calls[i].b).some =>
            \E j \in Created :
                /\ calls[j].b = calls[i].b
                /\ handle_get(handles, handle_of_builder(calls[i].b).val) = Some(calls[j].node)

\* C5 as first stated (refuted: a handle may be attached to several builder nodes)
C5_AsStated ==
    [][C5_NoneBefore' /\ ((BuildStep /\ result'.tag = "Ok") => C5_OwnNodeAfter')]_vars

\* what the amended C5 says of the state a successful build leaves
C5_Post ==
    \A h \in 1..NumHandles :
        Carrying(h) # {} =>
            LET last == calls[Max(Carrying(h))]
            IN /\ handle_get(handles, h) = Some(last.node)
               /\ last.node >= firstId
               /\ tree.style[last.node] = CalledFor(last.b)
               /\ Cardinality(Carrying(h)) = 1 =>
                     \A i \in Created : handle_of_builder(calls[i].b) = Some(h) => calls[i].node = last.node

\* C5, amended: a handle changes only in the step of build that creates the
\* node of a builder node carrying it, and then holds that node (so it is None
\* until the first such step, and a builder node without a handle sets none);
\* after a successful build a handle carried in the built tree holds the node
\* of the last occurrence carrying it in depth-first order.
C5_HandleFollowsBuild ==
    [][/\ \A h \in 1..NumHandles :
             handle_get(handles', h) # handle_get(handles, h) =>
                 /\ BuildStep /\ JustCreated'
                 /\ handle_of_builder(Last(calls').b) = Some(h)
                 /\ handle_get(handles', h) = Some(Last(calls').node)
       /\ (BuildStep /\ JustCreated') =>
             /\ Last(calls').node \in Nodes(tree') \ Nodes(tree)
             /\ handle_of_builder(Last(calls').b).some =>
                   handle_get(handles', handle_of_builder(Last(calls').b).val) = Some(Last(calls').node)
       /\ (BuildStep /\ result'.tag = "Ok") => C5_Post']_vars

\* two handles on two builder nodes of a built tree hold two different nodes
C5_Witness ==
    /\ result.tag = "Ok"
    /\ \E i \in Created, j \in Created :
          /\ i # j
          /\ handle_of_builder(calls[i].b) = Some(1) /\ handle_of_builder(calls[j].b) = Some(2)
          /\ handle_get(handles, 1) = Some(calls[i].node)
          /\ handle_get(handles, 2) = Some(calls[j].node)
    /\ \E b \in Builders : ~handle_of_builder(b).some

\* ---- claims about the tree ---------------------------------------------------------
\* C8: a step of build leaves every node that existed before the build call
\* with its style, its child list and its parent.
C8_OnlyAdds ==
    [][BuildStep =>
          \A n \in Nodes(tree) :
              n < firstId' =>
                  /\ n \in Nodes(tree')
                  /\ tree'.style[n] = tree.style[n]
                  /\ tree'.children[n] = tree.children[n]
                  /\ parent_of(tree', n) = parent_of(tree, n)]_vars

\* a build, failed or not, that wired new nodes into a tree holding the
\* caller's own wired nodes
C8_Witness ==
    /\ firstId = 3 /\ Idle
    /\ result.tag \in {"Ok", "Err"}
    /\ tree.children[2] = <<1>>
    /\ \E n \in Nodes(tree) : n >= firstId /\ tree.children[n] # <<>>

\* C9: set_children(p, kids) is called on a childless node p created by this
\* build call, with distinct, parentless nodes created after p by this build
\* call, none of them p or an ancestor of p; the core has no cause to refuse.
C9_SetChildrenSafe ==
    [][(BuildStep /\ calls' # <<>> /\ Last(calls').op = "set_children") =>
          LET c == Last(calls')
              made == {calls'[i].node : i \in {j \in 1..Len(calls') : calls'[j].op = "new_leaf"}}
          IN /\ c.node \in made /\ c.node >= firstId /\ c.node \in Nodes(tree)
             /\ tree.children[c.node] = <<>>
             /\ \A i \in 1..Len(c.kids) :
                   /\ c.kids[i] \in made /\ c.kids[i] \in Nodes(tree)
                   /\ c.kids[i] > c.node
                   /\ \A j \in 1..Len(c.kids) : j # i => c.kids[j] # c.kids[i]
                   /\ parent_of(tree, c.kids[i]) = None
                   /\ c.kids[i] \notin Ancestors(tree, c.node)
             /\ set_children_error(tree, c.node, c.kids) = None
             /\ c.err.some => c.err.val \in OtherTaffyErrors]_vars

\* a builder added twice as a child of the build root got two nodes
C9_Witness ==
    /\ result.tag = "Ok" /\ api = "StyleBuilder"
    /\ Len(child_args[calls[1].b]) = 2
    /\ child_args[calls[1].b][1] = child_args[calls[1].b][2]
    /\ Len(tree.children[result.val]) = 2
    /\ tree.children[result.val][1] # tree.children[result.val][2]

\* the nodes whose set_children call succeeded in the current build
Wired == {calls[i].node : i \in {j \in 1..Len(calls) : calls[j].op = "set_children" /\ ~calls[j].err.some}}

\* what C10 says of the state a failed build leaves
C10_Post ==
    /\ CreatedNodes = firstId..Len(tree.style)
    /\ \A n \in CreatedNodes \ Wired : tree.children[n] = <<>> /\ parent_of(tree, n) = None
    /\ \A i \in Created :
          calls[i].node \in Wired =>
              /\ Len(tree.children[calls[i].node]) = Len(child_args[calls[i].b])
              /\ \A k \in 1..Len(child_args[calls[i].b]) :
                    /\ tree.children[calls[i].node][k] = NodeAt(Append(calls[i].path, k))
                    /\ tree.children[calls[i].node][k] \in Wired
              /\ NodeAt(Front(calls[i].path)) \notin Wired => parent_of(tree, calls[i].node) = None
    /\ \A i \in Created :
          handle_of_builder(calls[i].b).some =>
              /\ handle_get(handles, handle_of_builder(calls[i].b).val).some
              /\ handle_get(handles, handle_of_builder(calls[i].b).val).val \in CreatedNodes

\* C10: a failing step undoes nothing: the tree and the handles stay as the
\* earlier steps left them, the nodes from the build root to the failing step
\* are childless and parentless, and completed subtrees stay wired, their
\* roots parentless.
C10_NoRollback ==
    [][(BuildStep /\ result'.tag = "Err") =>
          /\ tree' = tree
          /\ handles' = handles
          /\ C10_Post']_vars

\* a failed build that left a wired subtree and a set handle behind
C10_Witness ==
    /\ result.tag = "Err"
    /\ \E n \in Wired : tree.children[n] # <<>> /\ parent_of(tree, n) = None
    /\ \E h \in 1..NumHandles : handles[h].some /\ handles[h].val \in CreatedNodes \ Wired

\* ---- layout, from the written specification (sections 4.3, 4.4, 4.6) --------------
\* available space per axis: a definite value or max-content
MaxContent == [tag |-> "max_content"]
Definite(n) == [tag |-> "definite", v |-> n]
AvailSpaces == {Size(MaxContent, MaxContent), Size(Definite(10), Definite(4))}

\* tree.new_with_children(style, children): create, then set_children
new_with_children(t, style, kids) ==
    LET nl == new_leaf(t, style)
    IN [tree |-> set_children(nl.tree, nl.id, kids), id |-> nl.id]

\* the size a style declares on an axis, an aspect ratio deriving one axis
\* from the other when only that one is definite
StyleWidth(s) ==
    IF s.size.width.tag = "length" THEN Some(s.size.width.v)
    ELSE IF s.aspect_ratio.some /\ s.size.height.tag = "length"
         THEN Some(s.size.height.v * s.aspect_ratio.val)
    ELSE None
StyleHeight(s) ==
    IF s.size.height.tag = "length" THEN Some(s.size.height.v)
    ELSE IF s.aspect_ratio.some /\ s.size.width.tag = "length"
         THEN Some(s.size.width.v \div s.aspect_ratio.val)
    ELSE None

RECURSIVE SumSeq(_), MaxSeq(_)
SumSeq(s) == IF s = <<>> THEN 0 ELSE s[1] + SumSeq(Tail(s))
MaxSeq(s) == IF s = <<>> THEN 0 ELSE LET m == MaxSeq(Tail(s)) IN IF s[1] > m THEN s[1] ELSE m

RECURSIVE content_size(_, _)
\* the "measure" invocation: a node's size as its style and content give it
content_size(t, n) ==
    LET s == t.style[n]
        kids == t.children[n]
        ws == [i \in 1..Len(kids) |-> content_size(t, kids[i]).width]
        hs == [i \in 1..Len(kids) |-> content_size(t, kids[i]).height]
        row == s.flex_direction = "Row"
    IN [width |-> unwrap_or(StyleWidth(s), IF row THEN SumSeq(ws) ELSE MaxSeq(ws)),
        height |-> unwrap_or(StyleHeight(s), IF row THEN MaxSeq(hs) ELSE SumSeq(hs))]

RECURSIVE final_layout(_, _, _, _)
\* the "final" invocation: node n has size w x h; its children get their flex
\* basis on the main axis plus their flex_grow share of the free space, and
\* their declared size or the container's (stretch) on the cross axis
final_layout(t, n, w, h) ==
    LET s == t.style[n]
        kids == t.children[n]
        row == s.flex_direction = "Row"
        K == 1..Len(kids)
        basis == [i \in K |-> IF row THEN content_size(t, kids[i]).width
                                     ELSE content_size(t, kids[i]).height]
        grow == [i \in K |-> t.style[kids[i]].flex_grow]
        free == (IF row THEN w ELSE h) - SumSeq(basis)
        main == [i \in K |-> IF free > 0 /\ SumSeq(grow) > 0
                             THEN basis[i] + (free * grow[i]) \div SumSeq(grow)
                             ELSE basis[i]]
        cw == [i \in K |-> IF row THEN main[i] ELSE unwrap_or(StyleWidth(t.style[kids[i]]), w)]
        ch == [i \in K |-> IF row THEN unwrap_or(StyleHeight(t.style[kids[i]]), h) ELSE main[i]]
    IN {<<n, Size(w, h)>>} \cup UNION {final_layout(t, kids[i], cw[i], ch[i]) : i \in K}

\* compute_layout(root, available_space): the sizes of root and its descendants
compute_layout(t, root, avail) ==
    LET s == t.style[root]
        c == content_size(t, root)
        w == unwrap_or(StyleWidth(s), IF avail.width.tag = "definite" THEN avail.width.v ELSE c.width)
        h == unwrap_or(StyleHeight(s), IF avail.height.tag = "definite" THEN avail.height.v ELSE c.height)
    IN final_layout(t, root, w, h)

\* tree.layout(node).size
layout_size(L, n) == (CHOOSE e \in L : e[1] = n)[2]

RECURSIVE HandBuilt(_, _, _), HandBuiltChildren(_, _, _, _, _, _)
\* the tree made by hand for builder b placed at path, as the tests make it:
\* the children first, left to right, then the node with new_leaf or
\* new_with_children, styles written out as the setter calls gave them
HandStyle(b) ==
    [f \in Fields |-> IF given.args[b][f].some THEN given.args[b][f].val ELSE Style_default[f]]
HandBuilt(t, b, path) ==
    LET sub == HandBuiltChildren(t, b, path, 1, <<>>, {})
        made == IF sub.ids = <<>> THEN new_leaf(sub.tree, HandStyle(b))
                ELSE new_with_children(sub.tree, HandStyle(b), sub.ids)
    IN [tree |-> made.tree, id |-> made.id, at |-> sub.at \cup {<<path, made.id>>}]
HandBuiltChildren(t, b, path, i, ids, at) ==
    IF i > Len(given.children[b]) THEN [tree |-> t, ids |-> ids, at |-> at]
    ELSE LET one == HandBuilt(t, given.children[b][i], Append(path, i))
         IN HandBuiltChildren(one.tree, b, path, i + 1, Append(ids, one.id), at \cup one.at)

\* the sizes a layout gives, by the place of the node in the builder tree
SizesByPlace(L, at) == {<<e[1], layout_size(L, e[2])>> : e \in at}

\* where build put its nodes: place in the builder tree, node
BuiltAt == {<<calls[i].path, calls[i].node>> : i \in Created}

\* what C1 says of the state a successful build leaves
C1_Post ==
    LET hand == HandBuilt(EmptyTree, calls[1].b, <<>>)
    IN /\ {e[1] : e \in hand.at} = {e[1] : e \in BuiltAt}
       /\ \A avail \in AvailSpaces :
             SizesByPlace(compute_layout(tree, result.val, avail), BuiltAt) =
                 SizesByPlace(compute_layout(hand.tree, hand.id, avail), hand.at)

====
